---------------------------- MODULE Spec2Model ----------------------------
(***************************************************************************)
(* A model of the grid core of Electric_simulation: the spatial graph      *)
(* builder (core/grid_builder.py), the energization engine                 *)
(* (core/power_flow.py) and the sqrt(n) sensor placement                   *)
(* (core/sensors.py).                                                      *)
(*                                                                         *)
(* Units.  A coordinate component is an integer number of thirds of the    *)
(* 4-decimal rounding grid (1 unit = 1e-4/3 degree), so round(x, 4) has no *)
(* ties.  Lengths are metres (length_km * 1000).  Voltages are millivolts  *)
(* (kV * 1e6), numeric tokens of a voltage string are thousandths.         *)
(* Strings are sequences of one-character strings.                         *)
(***************************************************************************)
EXTENDS Integers, Sequences, FiniteSets, TLC

(***************************************************************************)
(* Python helpers                                                          *)
(***************************************************************************)
Abs(x) == IF x < 0 THEN -x ELSE x

SeqHas(s, x) == \E i \in 1..Len(s) : s[i] = x

SeqSet(s) == {s[i] : i \in 1..Len(s)}

\* list[:n]
Take(s, n) == IF n >= Len(s) THEN s ELSE SubSeq(s, 1, n)

\* d.get(k, default)
DictGet(d, k, default) == IF k \in DOMAIN d THEN d[k] ELSE default

\* list[i] with Python's indexing: 0-based, a negative i counts from the end
PyIndex(s, i) == IF i < 0 THEN s[Len(s) + i + 1] ELSE s[i + 1]

\* the list s with element number i (Python indexing) replaced by x
PySet(s, i, x) == [s EXCEPT ![IF i < 0 THEN Len(s) + i + 1 ELSE i + 1] = x]

RECURSIVE ISqrt(_)
\* floor of the square root
ISqrt(n) == IF n < 2 THEN n
            ELSE LET r == 2 * ISqrt(n \div 4)
                 IN  IF (r + 1) * (r + 1) <= n THEN r + 1 ELSE r

\* math.ceil(math.sqrt(n))
CeilSqrt(n) == LET r == ISqrt(n) IN IF r * r = n THEN r ELSE r + 1

(***************************************************************************)
(* networkx.Graph: the nodes in insertion order and, for every node, its   *)
(* neighbours in insertion order (the order every traversal iterates in).  *)
(***************************************************************************)
NxEmpty == [nodes |-> <<>>, adj |-> [n \in {} |-> <<>>]]

NxHasNode(G, n) == n \in DOMAIN G.adj

NxAddNode(G, n) ==
    IF NxHasNode(G, n) THEN G
    ELSE [nodes |-> Append(G.nodes, n),
          adj   |-> (n :> <<>>) @@ G.adj]

\* adj[u][v] = {} keeps v's place in adj[u] when the edge is already there
NxLink(G, u, v) ==
    IF SeqHas(G.adj[u], v) THEN G
    ELSE [G EXCEPT !.adj[u] = Append(G.adj[u], v)]

NxAddEdge(G, u, v) == NxLink(NxLink(NxAddNode(NxAddNode(G, u), v), u, v), v, u)

NxRemoveEdge(G, u, v) ==
    [G EXCEPT !.adj[u] = SelectSeq(G.adj[u], LAMBDA x : x # v),
              !.adj[v] = SelectSeq(G.adj[v], LAMBDA x : x # u)]

NxRemoveNodesFrom(G, S) ==
    [nodes |-> SelectSeq(G.nodes, LAMBDA n : n \notin S),
     adj   |-> [m \in DOMAIN G.adj \ S |->
                   SelectSeq(G.adj[m], LAMBDA x : x \notin S)]]

NxNumberOfNodes(G) == Len(G.nodes)

\* G.edges(): every edge once, from its endpoint that comes first in node order
NxEdgesOf(G, i) ==
    LET u == G.nodes[i]
        earlier == {G.nodes[j] : j \in 1..(i - 1)}
        nb == SelectSeq(G.adj[u], LAMBDA x : x \notin earlier)
    IN  [k \in 1..Len(nb) |-> <<u, nb[k]>>]

RECURSIVE NxEdgesFrom(_, _)
NxEdgesFrom(G, i) ==
    IF i > Len(G.nodes) THEN <<>>
    ELSE NxEdgesOf(G, i) \o NxEdgesFrom(G, i + 1)

NxEdges(G) == NxEdgesFrom(G, 1)

NxNumberOfEdges(G) == Len(NxEdges(G))

RECURSIVE NxBfs(_, _, _)
\* _plain_bfs: the nodes reached from the frontier, level by level
NxBfs(G, seen, frontier) ==
    IF frontier = {} THEN seen
    ELSE LET next == UNION {SeqSet(G.adj[n]) : n \in frontier} \ seen
         IN  NxBfs(G, seen \cup next, next)

NxNodeComponent(G, s) == NxBfs(G, {s}, {s})

\* nx.descendants(G, source); source must be a node (NetworkXError otherwise)
NxDescendants(G, s) == NxNodeComponent(G, s) \ {s}

RECURSIVE NxComponentsFrom(_, _, _)
\* nx.connected_components: one set per component, in the order of first nodes
NxComponentsFrom(G, i, seen) ==
    IF i > Len(G.nodes) THEN <<>>
    ELSE IF G.nodes[i] \in seen THEN NxComponentsFrom(G, i + 1, seen)
    ELSE LET c == NxNodeComponent(G, G.nodes[i])
         IN  <<c>> \o NxComponentsFrom(G, i + 1, seen \cup c)

NxConnectedComponents(G) == NxComponentsFrom(G, 1, {})

NxIsConnected(G) == Len(NxConnectedComponents(G)) = 1

\* nx.bridges: the edges of G.edges(), in that order, outside every cycle
NxIsBridge(G, e) == e[2] \notin NxNodeComponent(NxRemoveEdge(G, e[1], e[2]), e[1])

NxBridges(G) == SelectSeq(NxEdges(G), LAMBDA e : NxIsBridge(G, e))

RECURSIVE NxDfsNode(_, _, _)
RECURSIVE NxDfsChildren(_, _, _, _)
\* depth-first preorder: order is the list of nodes visited so far
NxDfsNode(G, n, order) == NxDfsChildren(G, n, 1, Append(order, n))

NxDfsChildren(G, n, i, order) ==
    IF i > Len(G.adj[n]) THEN order
    ELSE LET c == G.adj[n][i]
         IN  IF SeqHas(order, c) THEN NxDfsChildren(G, n, i + 1, order)
             ELSE NxDfsChildren(G, n, i + 1, NxDfsNode(G, c, order))

NxDfsPreorderNodes(G, source) == NxDfsNode(G, source, <<>>)


(***************************************************************************)
(* parse_voltage_kv                                                        *)
(***************************************************************************)
Digits == {"0", "1", "2", "3", "4", "5", "6", "7", "8", "9"}

DigitVal(c) ==
    CASE c = "0" -> 0 [] c = "1" -> 1 [] c = "2" -> 2 [] c = "3" -> 3
      [] c = "4" -> 4 [] c = "5" -> 5 [] c = "6" -> 6 [] c = "7" -> 7
      [] c = "8" -> 8 [] c = "9" -> 9

RECURSIVE StrSplit(_, _, _)
\* s.split(sep): cur is the piece being read
StrSplit(s, sep, cur) ==
    IF s = <<>> THEN <<cur>>
    ELSE IF Head(s) = sep THEN <<cur>> \o StrSplit(Tail(s), sep, <<>>)
    ELSE StrSplit(Tail(s), sep, Append(cur, Head(s)))

RECURSIVE StrLStrip(_)
StrLStrip(s) == IF s # <<>> /\ Head(s) = " " THEN StrLStrip(Tail(s)) ELSE s

RECURSIVE StrRStrip(_)
StrRStrip(s) ==
    IF s # <<>> /\ s[Len(s)] = " " THEN StrRStrip(SubSeq(s, 1, Len(s) - 1)) ELSE s

StrStrip(s) == StrRStrip(StrLStrip(s))

\* p.replace('.', '').isdigit()
StrIsNumericToken(p) ==
    LET d == SelectSeq(p, LAMBDA c : c # ".")
    IN  d # <<>> /\ \A i \in 1..Len(d) : d[i] \in Digits

StrDots(p) == Len(SelectSeq(p, LAMBDA c : c = "."))

RECURSIVE DigitsValue(_, _)
DigitsValue(d, acc) ==
    IF d = <<>> THEN acc ELSE DigitsValue(Tail(d), 10 * acc + DigitVal(Head(d)))

\* float(p) of a token of digits and dots raises ValueError unless it holds at
\* most one dot
PyFloatRaises(p) == StrDots(p) > 1

\* float(p) in thousandths (the digits after the third decimal are dropped)
PyFloatMilli(p) ==
    LET dot  == IF StrDots(p) = 0 THEN Len(p) + 1
                ELSE CHOOSE i \in 1..Len(p) : p[i] = "."
        int  == SubSeq(p, 1, dot - 1)
        frac == Take(SubSeq(p, dot + 1, Len(p)) \o <<"0", "0", "0">>, 3)
    IN  1000 * DigitsValue(int, 0) + DigitsValue(frac, 0)

RECURSIVE SeqMax(_)
SeqMax(s) ==
    IF Len(s) = 1 THEN s[1]
    ELSE LET m == SeqMax(Tail(s)) IN IF s[1] >= m THEN s[1] ELSE m

\* 11.0 kV in millivolts
DefaultKv == 11000000

\* the volts/kV threshold 1000, in thousandths
VoltsThreshold == 1000000

ParseVoltageKv(voltage_str) ==
    IF voltage_str = <<>> THEN DefaultKv
    ELSE LET parts  == StrSplit(voltage_str, ";", <<>>)
             strip  == [i \in 1..Len(parts) |-> StrStrip(parts[i])]
             tokens == SelectSeq(strip, StrIsNumericToken)
         IN  IF \E i \in 1..Len(tokens) : PyFloatRaises(tokens[i]) THEN DefaultKv
             ELSE IF tokens = <<>> THEN DefaultKv
             ELSE LET max_v == SeqMax([i \in 1..Len(tokens) |-> PyFloatMilli(tokens[i])])
                  IN  IF max_v > VoltsThreshold THEN max_v
                      ELSE IF max_v > 0 THEN max_v * 1000 ELSE DefaultKv

(***************************************************************************)
(* build_grid_from_geojson                                                 *)
(***************************************************************************)
\* round(x, 4) of a coordinate component given in thirds of the grid
Round4(x) == (x + 1) \div 3

\* the coordinate taken as it is for the key
CoordKeyExact(lon, lat) == <<lon, lat>>

CoordKey(lon, lat) == <<Round4(lon), Round4(lat)>>

\* metres per coordinate unit at the equator, times 1000 (R = 6371.0 km)
HaversineScale == 3706

\* _haversine, in metres, for the small distances of the model (cos(lat) = 1)
Haversine(lat1, lon1, lat2, lon2) ==
    LET dlat == lat2 - lat1
        dlon == lon2 - lon1
    IN  (ISqrt((dlat * dlat + dlon * dlon) * 10000) * HaversineScale) \div 100000

\* GridNetwork(): line_data maps (from, to) to the place in line_list of the
\* line dict it shares with line_list
EmptyGrid ==
    [G            |-> NxEmpty,
     bus_geo      |-> [b \in {} |-> <<>>],
     bus_voltage  |-> [b \in {} |-> 0],
     line_data    |-> [p \in {} |-> 0],
     line_list    |-> <<>>,
     ext_grid_bus |-> -1]

\* the builder's locals: coord_to_bus is the list of keys, key number i (from
\* 1) being bus i - 1; bus_counter is its length and line_idx is
\* Len(grid.line_list)
BuildStart == [grid |-> EmptyGrid, coord_to_bus |-> <<>>, line_bus_ids |-> <<>>]

BusOfKey(coord_to_bus, key) ==
    (CHOOSE i \in 1..Len(coord_to_bus) : coord_to_bus[i] = key) - 1

\* lines 127-141: one coordinate of a feature
BuildCoord(b, coord, voltage_kv) ==
    IF Len(coord) < 2 THEN b
    ELSE LET lon == coord[1]
             lat == coord[2]
             key == CoordKey(lon, lat)
         IN  IF ~SeqHas(b.coord_to_bus, key)
             THEN LET bid == Len(b.coord_to_bus)
                      g   == b.grid
                  IN  [grid |-> [g EXCEPT
                          !.bus_geo = (bid :> <<lon, lat>>) @@ g.bus_geo,
                          !.bus_voltage = (bid :> voltage_kv) @@ g.bus_voltage,
                          !.G = NxAddNode(g.G, bid)],
                       coord_to_bus |-> Append(b.coord_to_bus, key),
                       line_bus_ids |-> Append(b.line_bus_ids, bid)]
             ELSE [b EXCEPT !.line_bus_ids =
                      Append(b.line_bus_ids, BusOfKey(b.coord_to_bus, key))]

RECURSIVE BuildCoords(_, _, _, _)
\* the loop over the coordinates; each step is worked out before the next
BuildCoords(b, coords, k, voltage_kv) ==
    IF k > Len(coords) THEN b
    ELSE LET next == BuildCoord(b, coords[k], voltage_kv)
         IN  IF next = b THEN BuildCoords(b, coords, k + 1, voltage_kv)
             ELSE BuildCoords(next, coords, k + 1, voltage_kv)

\* lines 145-170: segment i (from 0) of a feature
BuildSegment(b, i, feat_id, voltage_kv, power_type) ==
    LET fb == b.line_bus_ids[i + 1]
        tb == b.line_bus_ids[i + 2]
        g  == b.grid
    IN  IF fb = tb THEN b
        ELSE LET geo_fb == g.bus_geo[fb]
                 geo_tb == g.bus_geo[tb]
                 hav    == Haversine(geo_fb[2], geo_fb[1], geo_tb[2], geo_tb[1])
                 length_km == IF hav < 1 THEN 10 ELSE hav
                 line_info ==
                     [idx        |-> Len(g.line_list),
                      from_bus   |-> fb,
                      to_bus     |-> tb,
                      voltage_kv |-> voltage_kv,
                      name       |-> <<"L", feat_id, i, voltage_kv>>,
                      power_type |-> power_type,
                      length_km  |-> length_km,
                      in_service |-> TRUE]
             IN  [b EXCEPT !.grid = [g EXCEPT
                     !.G = NxAddEdge(g.G, fb, tb),
                     !.line_data = (<<fb, tb>> :> Len(g.line_list) + 1) @@ g.line_data,
                     !.line_list = Append(g.line_list, line_info)]]

RECURSIVE BuildSegments(_, _, _, _, _)
BuildSegments(b, i, feat_id, voltage_kv, power_type) ==
    IF i >= Len(b.line_bus_ids) - 1 THEN b
    ELSE BuildSegments(BuildSegment(b, i, feat_id, voltage_kv, power_type),
                       i + 1, feat_id, voltage_kv, power_type)

\* lines 113-170: feature number feat_i (from 0)
BuildFeature(b, feat, feat_i) ==
    LET props       == DictGet(feat, "properties", <<>>)
        geom        == DictGet(feat, "geometry", <<>>)
        coords      == DictGet(geom, "coordinates", <<>>)
        voltage_str == DictGet(props, "voltage", <<>>)
        voltage_kv  == ParseVoltageKv(voltage_str)
        power_type  == DictGet(props, "power", "line")
        feat_id     == DictGet(feat, "id", <<"feat", feat_i>>)
    IN  IF Len(coords) < 2 THEN b
        ELSE BuildSegments(
                 BuildCoords([b EXCEPT !.line_bus_ids = <<>>], coords, 1, voltage_kv),
                 0, feat_id, voltage_kv, power_type)

RECURSIVE BuildFeatures(_, _, _)
BuildFeatures(b, feats, k) ==
    IF k > Len(feats) THEN b
    ELSE BuildFeatures(BuildFeature(b, feats[k], k - 1), feats, k + 1)

\* max(components, key=len): the first of the largest
LargestComponent(components) ==
    components[CHOOSE i \in 1..Len(components) :
        /\ \A j \in 1..Len(components) :
               Cardinality(components[j]) <= Cardinality(components[i])
        /\ \A j \in 1..(i - 1) :
               Cardinality(components[j]) < Cardinality(components[i])]

\* step 2 skipped
PruneNothing(g) == g

\* the lines that stay keep the idx they were created with
PruneKeepIdx(g) ==
    IF NxIsConnected(g.G) THEN g
    ELSE LET largest_cc    == LargestComponent(NxConnectedComponents(g.G))
             removed_buses == SeqSet(g.G.nodes) \ largest_cc
             keep(l)       == l.from_bus \in largest_cc /\ l.to_bus \in largest_cc
             kept          == SelectSeq(g.line_list, keep)
             place(k)      == Len(SelectSeq(SubSeq(g.line_list, 1, k), keep))
         IN  [G            |-> NxRemoveNodesFrom(g.G, removed_buses),
              bus_geo      |-> [x \in DOMAIN g.bus_geo \ removed_buses |-> g.bus_geo[x]],
              bus_voltage  |-> [x \in DOMAIN g.bus_voltage \ removed_buses |->
                                   g.bus_voltage[x]],
              line_data    |-> [p \in {q \in DOMAIN g.line_data :
                                          q[1] \in largest_cc /\ q[2] \in largest_cc} |->
                                   place(g.line_data[p])],
              line_list    |-> kept,
              ext_grid_bus |-> g.ext_grid_bus]

\* lines 186-208: keep the largest connected component
PruneToLargest(g) ==
    IF NxIsConnected(g.G) THEN g
    ELSE LET largest_cc    == LargestComponent(NxConnectedComponents(g.G))
             removed_buses == SeqSet(g.G.nodes) \ largest_cc
             keep(l)       == l.from_bus \in largest_cc /\ l.to_bus \in largest_cc
             kept          == SelectSeq(g.line_list, keep)
             \* the place in the filtered list of the dict at place k
             place(k)      == Len(SelectSeq(SubSeq(g.line_list, 1, k), keep))
         IN  [G            |-> NxRemoveNodesFrom(g.G, removed_buses),
              bus_geo      |-> [x \in DOMAIN g.bus_geo \ removed_buses |-> g.bus_geo[x]],
              bus_voltage  |-> [x \in DOMAIN g.bus_voltage \ removed_buses |->
                                   g.bus_voltage[x]],
              line_data    |-> [p \in {q \in DOMAIN g.line_data :
                                          q[1] \in largest_cc /\ q[2] \in largest_cc} |->
                                   place(g.line_data[p])],
              line_list    |-> [i \in 1..Len(kept) |-> [kept[i] EXCEPT !.idx = i - 1]],
              ext_grid_bus |-> g.ext_grid_bus]

\* lines 234-262: one substation feature; best is <<best_bus, best_voltage>>
\* with best_bus = -1 for None
SourceStep(g, coord_to_bus, feat, best) ==
    LET props      == DictGet(feat, "properties", <<>>)
        voltage_kv == ParseVoltageKv(DictGet(props, "voltage", <<>>))
        geom       == DictGet(feat, "geometry", <<>>)
        geom_type  == DictGet(geom, "type", "")
        ring       == DictGet(geom, "coordinates", <<<<>>>>)[1]
        coords     == DictGet(geom, "coordinates", <<>>)
        located    == \/ geom_type = "Polygon" /\ ring # <<>>
                      \/ geom_type = "Point" /\ Len(coords) >= 2
        lonlat     == IF geom_type = "Polygon" THEN <<ring[1][1], ring[1][2]>>
                      ELSE <<coords[1], coords[2]>>
        key        == CoordKey(lonlat[1], lonlat[2])
    IN  IF ~located THEN best
        ELSE IF ~SeqHas(coord_to_bus, key) THEN best
        ELSE LET bus_id == BusOfKey(coord_to_bus, key)
             IN  IF NxHasNode(g.G, bus_id) /\ voltage_kv > best[2]
                 THEN <<bus_id, voltage_kv>> ELSE best

RECURSIVE SourceScan(_, _, _, _, _)
SourceScan(g, coord_to_bus, feats, k, best) ==
    IF k > Len(feats) THEN best
    ELSE SourceScan(g, coord_to_bus, feats, k + 1,
                    SourceStep(g, coord_to_bus, feats[k], best))

\* the substations left unread
FindBestSourceBusFirstNode(g, substation_features, coord_to_bus) == g.G.nodes[1]

FindBestSourceBus(g, substation_features, coord_to_bus) ==
    LET best == SourceScan(g, coord_to_bus, substation_features, 1, <<-1, 0>>)
    IN  IF best[1] # -1 THEN best[1] ELSE g.G.nodes[1]

\* the line features the builder reads, in its order
AllLineFeats(classified_features, max_lines) ==
    Take(DictGet(classified_features, "lines", <<>>), max_lines)
    \o Take(DictGet(classified_features, "minor_lines", <<>>), 100)
    \o Take(DictGet(classified_features, "cables", <<>>), 100)

\* the builder's locals after step 1
BuildScan(classified_features, max_lines) ==
    BuildFeatures(BuildStart, AllLineFeats(classified_features, max_lines), 1)

BuildGridFromGeojson(classified_features, max_lines) ==
    LET b == BuildScan(classified_features, max_lines)
    IN  IF Len(b.coord_to_bus) = 0 THEN b.grid
        ELSE LET g == PruneToLargest(b.grid)
             IN  [g EXCEPT !.ext_grid_bus =
                     FindBestSourceBus(g, DictGet(classified_features, "substations", <<>>),
                                       b.coord_to_bus)]

\* lines 243-245 of one substation feature: [0] of an empty 'coordinates'
\* list, and [0] or [1] of a first ring point of fewer than two components,
\* raise IndexError, which nothing catches
SourceStepRaises(feat) ==
    LET geom        == DictGet(feat, "geometry", <<>>)
        coordinates == DictGet(geom, "coordinates", <<<<>>>>)
    IN  /\ DictGet(geom, "type", "") = "Polygon"
        /\ \/ coordinates = <<>>
           \/ coordinates[1] # <<>> /\ Len(coordinates[1][1]) < 2

\* the return at line 180 left out: nx.is_connected raises on a graph of no
\* node
BuildRaisedNoReturn(classified_features, max_lines) ==
    LET b    == BuildScan(classified_features, max_lines)
        subs == DictGet(classified_features, "substations", <<>>)
    IN  IF Len(b.coord_to_bus) = 0 THEN "NetworkXPointlessConcept"
        ELSE IF \E k \in 1..Len(subs) : SourceStepRaises(subs[k])
        THEN "IndexError" ELSE ""

\* the exception build_grid_from_geojson ends with, "" when it returns a
\* grid; with no bus created it returns at line 180, before the substations
\* are read
BuildRaised(classified_features, max_lines) ==
    LET b    == BuildScan(classified_features, max_lines)
        subs == DictGet(classified_features, "substations", <<>>)
    IN  IF /\ Len(b.coord_to_bus) # 0
           /\ \E k \in 1..Len(subs) : SourceStepRaises(subs[k])
        THEN "IndexError" ELSE ""

\* GridNetwork.num_buses, num_lines
NumBuses(grid) == NxNumberOfNodes(grid.G)

NumLines(grid) == NxNumberOfEdges(grid.G)

(***************************************************************************)
(* power_flow.py.  An operation that returns a value and changes the grid   *)
(* is a record [grid, ret]; the empty dict {} is <<>>.                      *)
(***************************************************************************)
\* every flag flipped instead of set
EnergizeGridToggle(grid) ==
    [grid EXCEPT !.line_list =
        [i \in 1..Len(grid.line_list) |->
            [grid.line_list[i] EXCEPT !.in_service = ~grid.line_list[i].in_service]]]

EnergizeGrid(grid) ==
    [grid EXCEPT !.line_list =
        [i \in 1..Len(grid.line_list) |-> [grid.line_list[i] EXCEPT !.in_service = TRUE]]]

\* the test for a negative index forgotten (an empty list has no line -1)
FaultIndexTooLarge(grid, line_idx) ==
    line_idx >= Len(grid.line_list) \/ Len(grid.line_list) = 0

\* line 30
FaultIndexOutOfRange(grid, line_idx) ==
    line_idx < 0 \/ line_idx >= Len(grid.line_list)

\* the flag flipped instead of cleared
FaultLineToggle(line) == [line EXCEPT !.in_service = ~line.in_service]

\* lines 34-35
FaultLine(line) == [line EXCEPT !.in_service = FALSE]

\* the snapshot taken of the line after the faulted one
FaultSnapshotNext(grid, line_idx) ==
    LET line == PyIndex(grid.line_list, (line_idx + 1) % Len(grid.line_list))
    IN  [line_idx   |-> line_idx,
         from_bus   |-> line.from_bus,
         to_bus     |-> line.to_bus,
         line_name  |-> line.name,
         voltage_kv |-> line.voltage_kv]

\* lines 37-43
FaultSnapshot(grid, line_idx) ==
    LET line == PyIndex(grid.line_list, line_idx)
    IN  [line_idx   |-> line_idx,
         from_bus   |-> line.from_bus,
         to_bus     |-> line.to_bus,
         line_name  |-> line.name,
         voltage_kv |-> line.voltage_kv]

\* the fault that puts every other line back in service
TriggerFaultAlone(grid, line_idx) ==
    IF FaultIndexOutOfRange(grid, line_idx) THEN [grid |-> grid, ret |-> <<>>]
    ELSE LET line == PyIndex(grid.line_list, line_idx)
         IN  [grid |-> [grid EXCEPT !.line_list =
                          PySet(EnergizeGrid(grid).line_list, line_idx, FaultLine(line))],
              ret  |-> FaultSnapshot(grid, line_idx)]

TriggerFault(grid, line_idx) ==
    IF FaultIndexOutOfRange(grid, line_idx) THEN [grid |-> grid, ret |-> <<>>]
    ELSE LET line == PyIndex(grid.line_list, line_idx)
         IN  [grid |-> [grid EXCEPT !.line_list =
                          PySet(grid.line_list, line_idx, FaultLine(line))],
              ret  |-> FaultSnapshot(grid, line_idx)]

\* the in_service test forgotten
AllLineIndices(grid) == 0..(Len(grid.line_list) - 1)

\* line 54: the indices of the lines in service
InServiceIndices(grid) ==
    {i \in 0..(Len(grid.line_list) - 1) : grid.line_list[i + 1].in_service}

\* every outcome of np.random.choice
TriggerRandomFault(grid) ==
    IF InServiceIndices(grid) = {} THEN {[grid |-> grid, ret |-> <<>>]}
    ELSE {TriggerFault(grid, i) : i \in InServiceIndices(grid)}

\* target_pct, in percent
TargetPct == 10

BridgeSampleCap == 50

\* lines 100-103: every outcome of the sampling
SampleBridges(bridges) ==
    IF Len(bridges) > BridgeSampleCap
    THEN {[i \in 1..BridgeSampleCap |-> bridges[f[i]]] :
            f \in {h \in [1..BridgeSampleCap -> 1..Len(bridges)] :
                     \A i, j \in 1..BridgeSampleCap : h[i] = h[j] => i = j}}
    ELSE {bridges}

\* lines 108-109
LineJoins(line, u, v) ==
    \/ line.from_bus = u /\ line.to_bus = v
    \/ line.from_bus = v /\ line.to_bus = u

\* the index (from 0) of the first line of line_list joining u and v, -1 if none
LineIndexOf(grid, u, v) ==
    IF \E i \in 1..Len(grid.line_list) : LineJoins(grid.line_list[i], u, v)
    THEN (CHOOSE i \in 1..Len(grid.line_list) :
            /\ LineJoins(grid.line_list[i], u, v)
            /\ \A j \in 1..(i - 1) : ~LineJoins(grid.line_list[j], u, v)) - 1
    ELSE -1

\* lines 114-117: the buses cut off with the edge (u, v) removed from G
Disconnected(G, ext_grid_bus, u, v) ==
    LET H == NxRemoveEdge(G, u, v)
    IN  IF ~NxHasNode(H, ext_grid_bus) THEN 0
        ELSE NxNumberOfNodes(G)
             - Cardinality(NxDescendants(H, ext_grid_bus) \cup {ext_grid_bus})

\* the comparison turned round
FartherFromTarget(disconnected, best_disconnect_count, target_count) ==
    Abs(disconnected - target_count) > Abs(best_disconnect_count - target_count)

\* line 121
CloserToTarget(disconnected, best_disconnect_count, target_count) ==
    Abs(disconnected - target_count) < Abs(best_disconnect_count - target_count)

\* the edge left out of the graph
RestoreEdgeForgotten(G, u, v) == G

\* line 118: grid.G.add_edge(u, v)  # Restore
RestoreEdge(G, u, v) == NxAddEdge(G, u, v)

\* lines 105-125 for one sampled bridge; st is [G, best_fault_idx,
\* best_disconnect_count]
BridgeStep(grid, st, e, target_count) ==
    LET u == e[1]
        v == e[2]
        i == LineIndexOf(grid, u, v)
    IN  IF i < 0 THEN st
        ELSE LET disconnected == Disconnected(st.G, grid.ext_grid_bus, u, v)
                 G2 == RestoreEdge(NxRemoveEdge(st.G, u, v), u, v)
             IN  IF CloserToTarget(disconnected, st.best_disconnect_count, target_count)
                 THEN [G |-> G2, best_fault_idx |-> i,
                       best_disconnect_count |-> disconnected]
                 ELSE [st EXCEPT !.G = G2]

RECURSIVE BridgeScan(_, _, _, _, _)
\* the loop over the sample; each step is worked out before the next is taken
BridgeScan(grid, st, sample, k, target_count) ==
    IF k > Len(sample) THEN st
    ELSE LET next == BridgeStep(grid, st, sample[k], target_count)
         IN  IF next = st THEN BridgeScan(grid, st, sample, k + 1, target_count)
             ELSE BridgeScan(grid, next, sample, k + 1, target_count)

\* lines 127-140, after the scan of one sample
BridgeChoice(grid, bridges, sample) ==
    LET target_count == (NumBuses(grid) * TargetPct) \div 100
        st == BridgeScan(grid,
                         [G |-> grid.G, best_fault_idx |-> -1,
                          best_disconnect_count |-> 0],
                         sample, 1, target_count)
        g2 == [grid EXCEPT !.G = st.G]
        first == LineIndexOf(g2, bridges[1][1], bridges[1][2])
    IN  IF st.best_fault_idx >= 0 THEN {TriggerFault(g2, st.best_fault_idx)}
        ELSE IF first >= 0 THEN {TriggerFault(g2, first)}
        ELSE TriggerRandomFault(g2)

\* line 81: the bridges the operation looks at
BridgesOf(grid) == NxBridges(grid.G)

\* every outcome of find_bridge_fault
FindBridgeFault(grid) ==
    LET bridges == BridgesOf(grid)
    IN  IF bridges = <<>> THEN TriggerRandomFault(grid)
        ELSE UNION {BridgeChoice(grid, bridges, sample) : sample \in SampleBridges(bridges)}

RECURSIVE ActiveGraphFrom(_, _, _)
\* lines 56-58; add_edge of an edge the graph already holds changes nothing
ActiveGraphFrom(G, line_list, k) ==
    IF k > Len(line_list) THEN G
    ELSE IF \/ ~line_list[k].in_service
            \/ SeqHas(G.adj[line_list[k].from_bus], line_list[k].to_bus)
         THEN ActiveGraphFrom(G, line_list, k + 1)
         ELSE ActiveGraphFrom(
                  NxAddEdge(G, line_list[k].from_bus, line_list[k].to_bus),
                  line_list, k + 1)

\* the in_service test forgotten
GetActiveGraphUnfiltered(grid) == grid.G

\* GridNetwork.get_active_graph
GetActiveGraph(grid) ==
    ActiveGraphFrom([nodes |-> grid.G.nodes, adj |-> [n \in DOMAIN grid.G.adj |-> <<>>]],
                    grid.line_list, 1)

\* the source left out of the reachable set
GetEnergizedStatusNoSource(grid) ==
    LET active_graph == GetActiveGraph(grid)
        start_bus    == grid.ext_grid_bus
    IN  IF start_bus < 0 \/ ~NxHasNode(active_graph, start_bus)
        THEN [b \in DOMAIN grid.G.adj |-> 0]
        ELSE [b \in DOMAIN grid.G.adj |->
                 IF b \in NxDescendants(active_graph, start_bus) THEN 1 ELSE 0]

\* the dict bus -> 1 | 0
GetEnergizedStatus(grid) ==
    LET active_graph == GetActiveGraph(grid)
        start_bus    == grid.ext_grid_bus
    IN  IF start_bus < 0 \/ ~NxHasNode(active_graph, start_bus)
        THEN [b \in DOMAIN grid.G.adj |-> 0]
        ELSE LET reachable == NxDescendants(active_graph, start_bus) \cup {start_bus}
             IN  [b \in DOMAIN grid.G.adj |-> IF b \in reachable THEN 1 ELSE 0]

\* get_active_graph filtering grid.G itself instead of a fresh graph
GetEnergizedStatusInPlace(grid) ==
    [grid |-> [grid EXCEPT !.G = GetActiveGraph(grid)],
     ret  |-> GetEnergizedStatus(grid)]

\* get_energized_status as a call: the grid it leaves behind (it builds the
\* active graph aside and assigns nothing of grid) and the dict it returns
GetEnergizedStatusCall(grid) ==
    [grid |-> grid, ret |-> GetEnergizedStatus(grid)]

GetDeadBuses(status) == {b \in DOMAIN status : status[b] = 0}

(***************************************************************************)
(* sensors.py                                                              *)
(***************************************************************************)
\* the square root rounded down
BlockSizeFloor(n) == ISqrt(n)

\* lines 41-46: the block size and the blocks of an ordering
BlockSize(n) == CeilSqrt(n)

BlocksOf(ordering, k) ==
    [j \in 1..((Len(ordering) + k - 1) \div k) |->
        SubSeq(ordering, (j - 1) * k + 1,
               IF j * k <= Len(ordering) THEN j * k ELSE Len(ordering))]

\* the traversal taken over the lines in service only
SensorOrderingInService(grid) ==
    NxDfsPreorderNodes(GetActiveGraph(grid), grid.ext_grid_bus)

\* line 35: the traversal the plan is cut from
SensorOrdering(grid) == NxDfsPreorderNodes(grid.G, grid.ext_grid_bus)

\* the source check left out: a source that is no bus is a block of its own
PlaceSensorsUnchecked(grid) ==
    LET ordering == IF NxHasNode(grid.G, grid.ext_grid_bus) THEN SensorOrdering(grid)
                    ELSE <<grid.ext_grid_bus>>
        blocks   == BlocksOf(ordering, BlockSize(Len(ordering)))
    IN  <<[j \in 1..Len(blocks) |-> blocks[j][Len(blocks[j])]], blocks>>

\* the sensor put at the first bus of each block
PlaceSensorsFirstOfBlock(grid) ==
    IF grid.ext_grid_bus < 0 THEN <<<<>>, <<>>>>
    ELSE LET ordering == SensorOrdering(grid)
             n        == Len(ordering)
         IN  IF n = 0 THEN <<<<>>, <<>>>>
             ELSE LET blocks == BlocksOf(ordering, BlockSize(n))
                  IN  <<[j \in 1..Len(blocks) |-> blocks[j][1]], blocks>>

\* <<sensors, blocks>>
PlaceSensorsSqrtN(grid) ==
    IF grid.ext_grid_bus < 0 THEN <<<<>>, <<>>>>
    ELSE LET ordering == SensorOrdering(grid)
             n        == Len(ordering)
         IN  IF n = 0 THEN <<<<>>, <<>>>>
             ELSE LET blocks == BlocksOf(ordering, BlockSize(n))
                  IN  <<[j \in 1..Len(blocks) |-> blocks[j][Len(blocks[j])]], blocks>>

\* the first line place_sensors_sqrt_n prints: the error of line 31, nothing
\* on the silent return of line 39, else the head of the report (line 51)
PlaceSensorsPrinted(grid) ==
    IF grid.ext_grid_bus < 0 THEN "ERROR: No power source in the grid!"
    ELSE IF Len(SensorOrdering(grid)) = 0 THEN ""
    ELSE "Sensor Placement:"

\* a sensor missing from the mapping read as live
ReadSensorsDefaultLive(sensors, energized_status) ==
    [s \in SeqSet(sensors) |-> DictGet(energized_status, s, 1)]

\* {s: energized_status.get(s, 0) for s in sensors}
ReadSensors(sensors, energized_status) ==
    [s \in SeqSet(sensors) |-> DictGet(energized_status, s, 0)]

\* the last dead sensor taken for the first
IdentifyLastDead(sensor_readings, sensors, blocks) ==
    LET dead(i) == DictGet(sensor_readings, sensors[i], 1) = 0
    IN  IF \E i \in 1..Len(sensors) : dead(i)
        THEN (CHOOSE i \in 1..Len(sensors) :
                dead(i) /\ \A j \in (i + 1)..Len(sensors) : ~dead(j)) - 1
        ELSE -1

\* the index (from 0) of the first sensor reading dead, -1 if none
IdentifyFaultyBlock(sensor_readings, sensors, blocks) ==
    LET dead(i) == DictGet(sensor_readings, sensors[i], 1) = 0
    IN  IF \E i \in 1..Len(sensors) : dead(i)
        THEN (CHOOSE i \in 1..Len(sensors) :
                dead(i) /\ \A j \in 1..(i - 1) : ~dead(j)) - 1
        ELSE -1

(***************************************************************************)
(* The inputs of a run                                                     *)
(***************************************************************************)
\* the most coordinates the line features of an input hold together
MaxCoords == 4

\* the longest single line of an input, in points
MaxPathLen == 9

\* max_lines: int = 5000
DefaultMaxLines == 5000

\* the raw coordinate of point p: off the rounding grid for two points in three
PointCoord(p) == <<3 * p + (p % 3) - 1, 0>>

VoltageTags ==
    << <<"3", "3", "0", "0", "0">>,
       <<"1", "1", "0", "0", "0", ";", " ", "4", "0", "0", "0", "0", "0">>,
       <<"a", "b", "c">> >>

\* line feature number k (from 1) through the points pts; every second one
\* carries no id
LineFeature(k, pts) ==
    LET body ==
            [properties |-> [voltage |-> VoltageTags[((k - 1) % Len(VoltageTags)) + 1],
                             power   |-> "line"],
             geometry   |-> [type        |-> "LineString",
                             coordinates |-> [i \in 1..Len(pts) |-> PointCoord(pts[i])]]]
    IN  IF k % 2 = 0
        THEN [id |-> <<"way", k>>, properties |-> body.properties,
              geometry |-> body.geometry]
        ELSE body

PointSubstation(p) ==
    [properties |-> [voltage |-> <<"2", "2", "0", "0", "0", "0">>],
     geometry   |-> [type |-> "Point", coordinates |-> PointCoord(p)]]

\* the point sequences of length n in which every point is one seen before or
\* the next new one (bus ids follow first occurrence, so the others repeat these)
PointStrings(n) ==
    {f \in [1..n -> 0..(n - 1)] :
        \A i \in 1..n : f[i] <= Cardinality({f[j] : j \in 1..(i - 1)})}

RECURSIVE Compositions(_)
\* the ways to cut n coordinates into features of two coordinates or more
Compositions(n) ==
    IF n = 0 THEN {<<>>}
    ELSE UNION {{<<a>> \o c : c \in Compositions(n - a)} : a \in 2..n}

RECURSIVE CutFeatures(_, _, _)
CutFeatures(f, cuts, k) ==
    IF cuts = <<>> THEN <<>>
    ELSE <<LineFeature(k, SubSeq(f, 1, Head(cuts)))>>
         \o CutFeatures(SubSeq(f, Head(cuts) + 1, Len(f)), Tail(cuts), k + 1)

LineInputs ==
    UNION {{CutFeatures(f, c, 1) : f \in PointStrings(n), c \in Compositions(n)} :
            n \in 0..MaxCoords}

PointsOf(feats) ==
    UNION {{Round4(feats[k].geometry.coordinates[i][1]) :
              i \in 1..Len(feats[k].geometry.coordinates)} : k \in 1..Len(feats)}

\* no substation, or one at a point of the lines or at the first point off them
SubstationInputs(feats) ==
    {<<>>} \cup {<<PointSubstation(p)>> : p \in 0..Cardinality(PointsOf(feats))}

PathFeature(n) == LineFeature(1, [i \in 1..n |-> i - 1])

(***************************************************************************)
(* The state: the builder's inputs, the grid, the last call, and what the  *)
(* caller keeps of the calls' results (run_simulation.py: fault_info,      *)
(* sensors and blocks).                                                    *)
(***************************************************************************)
VARIABLES classified_features, max_lines, grid, call, fault_info, plan

vars == <<classified_features, max_lines, grid, call, fault_info, plan>>

Built(feats, subs) ==
    /\ classified_features = [lines |-> feats, substations |-> subs]
    /\ max_lines = DefaultMaxLines
    /\ grid = BuildGridFromGeojson(classified_features, max_lines)
    /\ call = [name |-> "build_grid_from_geojson"]
    /\ fault_info = <<>>
    /\ plan = <<<<>>, <<>>>>

\* two lines, the second ending where the first starts: A - B and C - D - A
JoinedLines == <<LineFeature(1, <<0, 1>>), LineFeature(2, <<2, 3, 0>>)>>

\* two lines apart, the one created first the shorter: A - B and C - D - E
SplitLines == <<LineFeature(1, <<0, 1>>), LineFeature(2, <<2, 3, 4>>)>>

ExtraLines == {JoinedLines, SplitLines}

\* a grid built from any of the line inputs, from one line of up to
\* MaxPathLen points in a row, or from two lines joined or apart
Init ==
    \/ \E feats \in LineInputs : \E subs \in SubstationInputs(feats) : Built(feats, subs)
    \/ \E n \in (MaxCoords + 1)..MaxPathLen : Built(<<PathFeature(n)>>, <<>>)
    \/ \E feats \in ExtraLines : \E subs \in SubstationInputs(feats) : Built(feats, subs)

CallEnergizeGrid ==
    /\ grid' = EnergizeGrid(grid)
    /\ call' = [name |-> "energize_grid"]
    /\ UNCHANGED <<classified_features, max_lines, fault_info, plan>>

Faulted(name, line_idx, r) ==
    /\ grid' = r.grid
    /\ fault_info' = r.ret
    /\ call' = [name |-> name, line_idx |-> line_idx]
    /\ UNCHANGED <<classified_features, max_lines, plan>>

CallTriggerFault(line_idx) ==
    Faulted("trigger_fault", line_idx, TriggerFault(grid, line_idx))

CallTriggerRandomFault ==
    \E r \in TriggerRandomFault(grid) : Faulted("trigger_random_fault", -1, r)

CallFindBridgeFault ==
    \E r \in FindBridgeFault(grid) : Faulted("find_bridge_fault", -1, r)

CallPlaceSensors ==
    /\ plan' = PlaceSensorsSqrtN(grid)
    /\ call' = [name |-> "place_sensors_sqrt_n", printed |-> PlaceSensorsPrinted(grid)]
    /\ UNCHANGED <<classified_features, max_lines, grid, fault_info>>

\* status = get_energized_status(grid)
CallGetEnergizedStatus ==
    LET r == GetEnergizedStatusCall(grid)
    IN  /\ grid' = r.grid
        /\ call' = [name |-> "get_energized_status", ret |-> r.ret]
        /\ UNCHANGED <<classified_features, max_lines, fault_info, plan>>

Next ==
    \/ CallEnergizeGrid
    \/ CallGetEnergizedStatus
    \/ \E line_idx \in (-1)..Len(grid.line_list) : CallTriggerFault(line_idx)
    \/ CallTriggerRandomFault
    \/ CallFindBridgeFault
    \/ CallPlaceSensors

Spec == Init /\ [][Next]_vars

(***************************************************************************)
(* The claims                                                              *)
(***************************************************************************)
Buses == SeqSet(grid.G.nodes)

FaultCalls == {"trigger_fault", "trigger_random_fault", "find_bridge_fault"}

\* the places in line_list of the lines out of service
OutOfService == {i \in 1..Len(grid.line_list) : ~grid.line_list[i].in_service}

\* S holds both ends or neither end of every line in service
ClosedUnderService(S) ==
    \A i \in 1..Len(grid.line_list) :
        grid.line_list[i].in_service =>
            (grid.line_list[i].from_bus \in S <=> grid.line_list[i].to_bus \in S)

Live == {b \in Buses : GetEnergizedStatus(grid)[b] = 1}

\* the grid is the path 0 - 1 - ... - n-1 fed at bus 0
IsPathFromZero(n) ==
    /\ Buses = 0..(n - 1)
    /\ grid.ext_grid_bus = 0
    /\ Len(grid.line_list) = n - 1
    /\ \A i \in 1..(n - 1) : LineJoins(grid.line_list[i], i - 1, i)

\* C1: when the source is a bus of the grid, get_energized_status maps every
\* bus to 1 or 0, and the buses mapped to 1 are the least set that holds the
\* source and is closed under the lines in service, that is the buses joined
\* to the source by a path of lines in service; on the path 0-1-2-3-4 fed at 0
\* with only line (2,3) out of service they are 0, 1 and 2.
C1_EnergizedIsReachable ==
    grid.ext_grid_bus \in Buses =>
        LET status == GetEnergizedStatus(grid)
            live == {b \in Buses : status[b] = 1}
        IN  /\ DOMAIN status = Buses
            /\ \A b \in Buses : status[b] \in {0, 1}
            /\ live = Live
            /\ grid.ext_grid_bus \in live
            /\ ClosedUnderService(live)
            /\ \A S \in SUBSET live :
                   grid.ext_grid_bus \in S /\ ClosedUnderService(S) => S = live
            /\ IsPathFromZero(5) /\ OutOfService = {3} =>
                   status = (0 :> 1 @@ 1 :> 1 @@ 2 :> 1 @@ 3 :> 0 @@ 4 :> 0)

\* a grid with a cycle, one line of it out of service and a dead bus behind
\* another faulted line
C1_Witness ==
    /\ grid.ext_grid_bus \in Buses
    /\ call.name \in FaultCalls
    /\ Cardinality(OutOfService) = 2
    /\ Live # Buses
    /\ Cardinality(Live) >= 3

\* C2: in every grid build returns with a bus or more, every bus is energized
\* when all lines are in service.
C2_BuiltGridConnected ==
    call.name = "build_grid_from_geojson" /\ NumBuses(grid) >= 1 =>
        /\ grid.ext_grid_bus \in Buses
        /\ \A b \in Buses : GetEnergizedStatus(EnergizeGrid(grid))[b] = 1

\* a build that dropped buses of a smaller component
C2_Witness ==
    /\ call.name = "build_grid_from_geojson"
    /\ NumBuses(grid) >= 2
    /\ Len(BuildScan(classified_features, max_lines).coord_to_bus) > NumBuses(grid)

\* one line is out of service, the one the last fault operation reported: the
\* grid as it is after energize_grid and a single fault
SingleFault ==
    /\ fault_info # <<>>
    /\ OutOfService = {fault_info.line_idx + 1}

\* the plans a caller can hold: the one placed last and the one placed now
Plans == {plan, PlaceSensorsSqrtN(grid)}

Readings(P) == ReadSensors(P[1], GetEnergizedStatus(grid))

Identified(P) == IdentifyFaultyBlock(Readings(P), P[1], P[2])

\* C3: after a single fault, when identify_faulty_block names a block, the
\* block holds at most ceil(sqrt(n)) buses and one end of the faulted line.
C3_BlockHoldsFault ==
    SingleFault =>
        \A P \in Plans :
            Identified(P) >= 0 =>
                LET block == P[2][Identified(P) + 1]
                IN  /\ Len(block) >= 1
                    /\ (Len(block) - 1) * (Len(block) - 1) < NumBuses(grid)
                    /\ \/ fault_info.from_bus \in SeqSet(block)
                       \/ fault_info.to_bus \in SeqSet(block)

\* a fault found in a block after the first
C3_Witness ==
    /\ SingleFault
    /\ call.name \in FaultCalls
    /\ Identified(PlaceSensorsSqrtN(grid)) >= 1

\* the places in the sensor list of the sensors reading dead
DeadSensors(P) == {i \in 1..Len(P[1]) : Readings(P)[P[1][i]] = 0}

\* the block (from 1) of plan P that holds bus b
BlockOf(P, b) == CHOOSE j \in 1..Len(P[2]) : b \in SeqSet(P[2][j])

\* the end of the faulted line that is cut off
DeadEnd ==
    IF GetEnergizedStatus(grid)[fault_info.from_bus] = 0
    THEN fault_info.from_bus ELSE fault_info.to_bus

Disconnecting == SingleFault /\ Live # Buses

\* C4 as claimed: after a single fault that cuts off a bus, the dead sensors
\* are a suffix of the sensor list that starts at the sensor of the block
\* holding the fault.
C4_DeadSensorsSuffix ==
    Disconnecting =>
        \A P \in Plans \ {<<<<>>, <<>>>>} :
            /\ DeadSensors(P) # {}
            /\ \A i \in DeadSensors(P) : (i + 1)..Len(P[1]) \subseteq DeadSensors(P)
            /\ \E i \in DeadSensors(P) :
                   /\ \A j \in DeadSensors(P) : i <= j
                   /\ \/ fault_info.from_bus \in SeqSet(P[2][i])
                      \/ fault_info.to_bus \in SeqSet(P[2][i])

\* C4, amended: after a single fault that cuts off a bus, exactly one end of
\* the faulted line is dead, the dead sensors are a run of consecutive sensors
\* (none, when the buses cut off hold no sensor), the run reaches the end of
\* the sensor list exactly when the last bus of the traversal is cut off, and
\* a run that is not empty starts at the sensor of the block holding the dead
\* end of the faulted line.
C4_DeadSensorsRun ==
    Disconnecting =>
        /\ GetEnergizedStatus(grid)[fault_info.from_bus]
               # GetEnergizedStatus(grid)[fault_info.to_bus]
        /\ \A P \in Plans \ {<<<<>>, <<>>>>} :
            /\ \A i, j \in DeadSensors(P) : i..j \subseteq DeadSensors(P)
            /\ Len(P[1]) \in DeadSensors(P)
                   <=> GetEnergizedStatus(grid)[P[2][Len(P[2])][Len(P[2][Len(P[2])])]] = 0
            /\ \A i \in DeadSensors(P) :
                   (\A j \in DeadSensors(P) : i <= j) => i = BlockOf(P, DeadEnd)

\* a dead sensor followed by a live one
C4_Witness ==
    /\ Disconnecting
    /\ call.name \in FaultCalls
    /\ \E i \in DeadSensors(PlaceSensorsSqrtN(grid)) :
           i < Len(PlaceSensorsSqrtN(grid)[1])
           /\ i + 1 \notin DeadSensors(PlaceSensorsSqrtN(grid))

\* C5: on the path 0 - ... - n-1 fed at bus 0, after a single fault on line
\* (i, i+1) the sensors at buses <= i read live, those at buses > i read
\* dead, and identify_faulty_block returns the block of bus i+1; for n = 9
\* and line (4,5) the plan is blocks [0,1,2],[3,4,5],[6,7,8] with sensors
\* [2,5,8], the readings are {2: 1, 5: 0, 8: 0} and the block index is 1.
C5_PathLocalization ==
    \A n \in 2..(MaxPathLen + 1) :
        IsPathFromZero(n) /\ SingleFault =>
            \A P \in Plans \ {<<<<>>, <<>>>>} :
                /\ \A j \in 1..Len(P[2]) : \A m \in 1..Len(P[2][j]) :
                       P[2][j][m] = (j - 1) * Len(P[2][1]) + m - 1
                /\ \A s \in SeqSet(P[1]) :
                       Readings(P)[s] = IF s <= fault_info.line_idx THEN 1 ELSE 0
                /\ Identified(P) >= 0
                /\ fault_info.line_idx + 1 \in SeqSet(P[2][Identified(P) + 1])
                /\ n = 9 /\ fault_info.line_idx = 4 =>
                       /\ P = << <<2, 5, 8>>, << <<0, 1, 2>>, <<3, 4, 5>>, <<6, 7, 8>> >> >>
                       /\ Readings(P) = (2 :> 1 @@ 5 :> 0 @@ 8 :> 0)
                       /\ Identified(P) = 1

\* the path of 9 buses with line (4,5) faulted
C5_Witness ==
    /\ IsPathFromZero(9)
    /\ SingleFault
    /\ fault_info.line_idx = 4
    /\ call.name = "trigger_fault"
    /\ plan # <<<<>>, <<>>>>

\* C6: in a step, a line goes out of service only by a fault operation that
\* reports that line, and comes back into service only by energize_grid: a
\* line out of service stays out until the next energize_grid; no step adds,
\* drops or reorders lines.
C6_ServiceTransitions ==
    [][/\ Len(grid'.line_list) = Len(grid.line_list)
       /\ \A i \in 1..Len(grid.line_list) :
           /\ grid.line_list[i].in_service /\ ~grid'.line_list[i].in_service =>
                  /\ call'.name \in FaultCalls
                  /\ fault_info' # <<>>
                  /\ fault_info'.line_idx = i - 1
           /\ ~grid.line_list[i].in_service /\ call'.name # "energize_grid" =>
                  ~grid'.line_list[i].in_service]_vars

\* a second line faulted while the first one stayed out of service
C6_Witness ==
    /\ call.name \in FaultCalls
    /\ fault_info # <<>>
    /\ Cardinality(OutOfService) = 2

\* C7: trigger_fault with an index below 0 or not below the number of lines
\* returns {} and leaves the grid as it was.
C7_OutOfRangeIndex ==
    [][call'.name = "trigger_fault"
       /\ (call'.line_idx < 0 \/ call'.line_idx >= Len(grid.line_list)) =>
           /\ fault_info' = <<>>
           /\ grid' = grid]_vars

\* trigger_fault(-1) refused on a grid with lines
C7_Witness ==
    /\ call = [name |-> "trigger_fault", line_idx |-> -1]
    /\ fault_info = <<>>
    /\ Len(grid.line_list) >= 2
    /\ OutOfService = {}

\* C8: trigger_fault with an index in range takes that line out of service,
\* changes no other field of that line, no other line, no bus, no edge of the
\* graph and not the source, and returns the index, ends, name and voltage of
\* that line.
C8_FaultFrame ==
    [][call'.name = "trigger_fault"
       /\ call'.line_idx >= 0 /\ call'.line_idx < Len(grid.line_list) =>
           LET i == call'.line_idx + 1
           IN  /\ ~grid'.line_list[i].in_service
               /\ grid'.line_list[i] =
                      [grid.line_list[i] EXCEPT !.in_service = FALSE]
               /\ Len(grid'.line_list) = Len(grid.line_list)
               /\ \A j \in 1..Len(grid.line_list) :
                      j # i => grid'.line_list[j] = grid.line_list[j]
               /\ grid'.G = grid.G
               /\ grid'.bus_geo = grid.bus_geo
               /\ grid'.bus_voltage = grid.bus_voltage
               /\ grid'.line_data = grid.line_data
               /\ grid'.ext_grid_bus = grid.ext_grid_bus
               /\ fault_info' =
                      [line_idx   |-> call'.line_idx,
                       from_bus   |-> grid.line_list[i].from_bus,
                       to_bus     |-> grid.line_list[i].to_bus,
                       line_name  |-> grid.line_list[i].name,
                       voltage_kv |-> grid.line_list[i].voltage_kv]]_vars

\* a line faulted by index on a grid whose lines differ in name and voltage
C8_Witness ==
    /\ call.name = "trigger_fault"
    /\ fault_info # <<>>
    /\ fault_info.line_idx = call.line_idx
    /\ OutOfService = {call.line_idx + 1}
    /\ \E j \in 1..Len(grid.line_list) :
           grid.line_list[j].voltage_kv # fault_info.voltage_kv

\* the number of lines in service in grid g
ServiceCount(g) == Cardinality({i \in 1..Len(g.line_list) : g.line_list[i].in_service})

\* C9: trigger_random_fault faults a line that was in service, so one line
\* fewer is in service after it; with no line in service it returns {} and
\* changes nothing.
C9_RandomFault ==
    [][call'.name = "trigger_random_fault" =>
           IF ServiceCount(grid) = 0
           THEN fault_info' = <<>> /\ grid' = grid
           ELSE /\ fault_info' # <<>>
                /\ fault_info'.line_idx \in 0..(Len(grid.line_list) - 1)
                /\ grid.line_list[fault_info'.line_idx + 1].in_service
                /\ ~grid'.line_list[fault_info'.line_idx + 1].in_service
                /\ ServiceCount(grid') = ServiceCount(grid) - 1]_vars

\* a random fault on a grid that had a line out of service already
C9_Witness ==
    /\ call.name = "trigger_random_fault"
    /\ fault_info # <<>>
    /\ Cardinality(OutOfService) = 2
    /\ ServiceCount(grid) >= 1

\* C10: energize_grid puts every line in service whatever the state and
\* changes nothing else, and a second energize_grid right after it leaves the
\* grid as the first one made it.
C10_EnergizeAll ==
    [][call'.name = "energize_grid" =>
           /\ Len(grid'.line_list) = Len(grid.line_list)
           /\ \A i \in 1..Len(grid.line_list) :
                  grid'.line_list[i] = [grid.line_list[i] EXCEPT !.in_service = TRUE]
           /\ grid'.G = grid.G
           /\ grid'.ext_grid_bus = grid.ext_grid_bus
           /\ EnergizeGrid(grid') = grid']_vars

\* energize_grid called after a fault operation, every line back in service
C10_Witness ==
    /\ call.name = "energize_grid"
    /\ fault_info # <<>>
    /\ Len(grid.line_list) >= 2
    /\ OutOfService = {}

\* C11: get_energized_status is a pure read: the call changes no in_service
\* flag, no line, no node, no edge and not the source, and the mapping it
\* returned is the one a second call on the grid it left returns.
C11_EnergizedPureRead ==
    [][call'.name = "get_energized_status" =>
           /\ grid'.line_list = grid.line_list
           /\ grid'.G = grid.G
           /\ grid'.ext_grid_bus = grid.ext_grid_bus
           /\ grid' = grid
           /\ fault_info' = fault_info /\ plan' = plan
           /\ call'.ret = GetEnergizedStatus(grid)
           /\ call'.ret = GetEnergizedStatusCall(grid').ret
           /\ (call.name = "get_energized_status" => call'.ret = call.ret)]_vars

\* the status read on a grid with a faulted line and dead buses
C11_Witness ==
    /\ call.name = "get_energized_status"
    /\ OutOfService # {}
    /\ GetDeadBuses(call.ret) # {}
    /\ GetDeadBuses(call.ret) # Buses

\* the plan placed now and, when one was placed, the plan the caller holds
PlacedPlans == {PlaceSensorsSqrtN(grid)} \cup ({plan} \ {<<<<>>, <<>>>>})

\* C12: on a grid of n >= 1 buses, with k the least integer whose square is
\* at least n, place_sensors_sqrt_n returns the least number m of blocks with
\* m * k >= n, every block but the last holds k buses, the last holds between
\* 1 and k, and the sensors are the last buses of the blocks, one per block.
C12_BlockCounts ==
    NumBuses(grid) >= 1 =>
        LET n == NumBuses(grid)
            k == CHOOSE x \in 1..n : x * x >= n /\ (x - 1) * (x - 1) < n
            m == CHOOSE x \in 1..n : x * k >= n /\ (x - 1) * k < n
        IN  \A P \in PlacedPlans :
                /\ Len(P[2]) = m
                /\ \A j \in 1..(m - 1) : Len(P[2][j]) = k
                /\ Len(P[2][m]) \in 1..k
                /\ Len(P[1]) = m
                /\ \A j \in 1..m : P[1][j] = P[2][j][Len(P[2][j])]

\* a plan of several blocks whose last block is short
C12_Witness ==
    /\ call.name = "place_sensors_sqrt_n"
    /\ NumBuses(grid) >= 1
    /\ Len(plan[2]) >= 2
    /\ Len(plan[2][Len(plan[2])]) < Len(plan[2][1])

RECURSIVE Concat(_)
\* the blocks laid end to end
Concat(blocks) ==
    IF blocks = <<>> THEN <<>> ELSE Head(blocks) \o Concat(Tail(blocks))

\* buses a and b are joined by an edge of the full graph
Adjacent(a, b) == SeqHas(grid.G.adj[a], b)

\* s lists every bus once, starts at the source, and is an order in which a
\* depth-first search of the full graph can first reach the buses: whenever
\* a comes before b before c, with a joined to c but not to b, some bus
\* between a and b is joined to b
IsDfsPreorder(s) ==
    /\ Len(s) = Cardinality(Buses)
    /\ SeqSet(s) = Buses
    /\ s[1] = grid.ext_grid_bus
    /\ \A a, b, c \in 1..Len(s) :
           a < b /\ b < c /\ Adjacent(s[a], s[c]) /\ ~Adjacent(s[a], s[b]) =>
               \E d \in (a + 1)..(b - 1) : Adjacent(s[d], s[b])

\* C13: on a grid with a bus or more, whatever lines are out of service, the
\* blocks of place_sensors_sqrt_n laid end to end are a depth-first preorder
\* of the full graph from the source holding every bus exactly once: the
\* blocks are pairwise disjoint and their union is the set of buses.
C13_BlocksArePreorder ==
    NumBuses(grid) >= 1 =>
        \A P \in PlacedPlans :
            /\ IsDfsPreorder(Concat(P[2]))
            /\ Concat(P[2]) = SensorOrdering(grid) \/ P # PlaceSensorsSqrtN(grid)
            /\ \A i, j \in 1..Len(P[2]) :
                   i # j => SeqSet(P[2][i]) \cap SeqSet(P[2][j]) = {}
            /\ UNION {SeqSet(P[2][j]) : j \in 1..Len(P[2])} = Buses

\* a plan of several blocks placed while buses are cut off
C13_Witness ==
    /\ call.name = "place_sensors_sqrt_n"
    /\ OutOfService # {}
    /\ Live # Buses
    /\ Len(plan[2]) >= 2
    /\ NumLines(grid) >= NumBuses(grid)

(***************************************************************************)
(* Reading the sensors on its own: read_sensors and identify_faulty_block  *)
(* applied to any sensor list and any energization mapping, one that lacks *)
(* sensor buses included.                                                  *)
(***************************************************************************)
\* the largest bus id of the sensor lists and mappings tried
MaxSensorBus == 2

\* the lists of distinct buses
SensorLists ==
    UNION {{f \in [1..n -> 0..MaxSensorBus] : \A i, j \in 1..n : f[i] = f[j] => i = j} :
             n \in 0..(MaxSensorBus + 1)}

\* the mappings of some of the buses to 0 or 1
StatusDicts == UNION {[S -> {0, 1}] : S \in SUBSET (0..MaxSensorBus)}

InitSensors ==
    /\ classified_features = [lines |-> <<>>, substations |-> <<>>]
    /\ max_lines = DefaultMaxLines
    /\ grid = EmptyGrid
    /\ fault_info = <<>>
    /\ \E sensors \in SensorLists :
           plan = <<sensors, [i \in 1..Len(sensors) |-> <<sensors[i]>>]>>
    /\ \E energized_status \in StatusDicts :
           call = [name |-> "energized_status", ret |-> energized_status]

\* sensor_readings = read_sensors(sensors, status)
CallReadSensors ==
    /\ call.name = "energized_status"
    /\ call' = [name             |-> "read_sensors",
                energized_status |-> call.ret,
                ret              |-> ReadSensors(plan[1], call.ret)]
    /\ UNCHANGED <<classified_features, max_lines, grid, fault_info, plan>>

\* faulty_block_idx = identify_faulty_block(sensor_readings, sensors, blocks)
CallIdentifyFaultyBlock ==
    /\ call.name = "read_sensors"
    /\ call' = [name             |-> "identify_faulty_block",
                energized_status |-> call.energized_status,
                sensor_readings  |-> call.ret,
                ret              |-> IdentifyFaultyBlock(call.ret, plan[1], plan[2])]
    /\ UNCHANGED <<classified_features, max_lines, grid, fault_info, plan>>

NextSensors == CallReadSensors \/ CallIdentifyFaultyBlock

SpecSensors == InitSensors /\ [][NextSensors]_vars

\* C14: read_sensors gives every sensor its value in the energization
\* mapping, 0 when the mapping lacks it; identify_faulty_block on these
\* readings returns the index (from 0) of the first sensor of the list that
\* is 0 in the mapping or absent from it, and -1 exactly when there is none.
C14_FirstDeadSensor ==
    /\ call.name = "read_sensors" =>
           /\ DOMAIN call.ret = SeqSet(plan[1])
           /\ \A s \in SeqSet(plan[1]) :
                  call.ret[s] = IF s \in DOMAIN call.energized_status
                                THEN call.energized_status[s] ELSE 0
    /\ call.name = "identify_faulty_block" =>
           LET sensors == plan[1]
               dead(i) == \/ sensors[i] \notin DOMAIN call.energized_status
                          \/ call.energized_status[sensors[i]] = 0
           IN  /\ call.ret \in (-1)..(Len(sensors) - 1)
               /\ call.ret = -1 <=> \A i \in 1..Len(sensors) : ~dead(i)
               /\ call.ret >= 0 =>
                      /\ dead(call.ret + 1)
                      /\ \A i \in 1..call.ret : ~dead(i)

\* the first dead sensor is one the mapping lacks, after a live one and
\* before one the mapping gives as dead
C14_Witness ==
    /\ call.name = "identify_faulty_block"
    /\ call.ret = 1
    /\ plan[1][2] \notin DOMAIN call.energized_status
    /\ Len(plan[1]) = 3
    /\ DictGet(call.energized_status, plan[1][3], 1) = 0

\* how far from 10% of the n buses a cut of d buses is, in tenths of a bus
TenthOff(d, n) == Abs(10 * d - n)

\* how far a cut of d buses is from int(n * 0.10)
TargetOff(d, n) == Abs(d - (n * TargetPct) \div 100)

\* bridge number k of bridges is the first of those nearest the target, by
\* the measure off
FirstNearest(bridges, k, off(_, _)) ==
    LET cut(j) == Disconnected(grid.G, grid.ext_grid_bus, bridges[j][1], bridges[j][2])
        n      == NumBuses(grid)
    IN  /\ \A j \in 1..Len(bridges) : off(cut(k), n) <= off(cut(j), n)
        /\ \A j \in 1..(k - 1) : off(cut(k), n) < off(cut(j), n)

\* C15 as claimed: on a grid with every line in service and between 1 and 50
\* bridges, find_bridge_fault faults the first of the bridges whose removal
\* cuts off from the source a number of buses nearest 10% of the buses
\* (nearest the exact tenth, or nearest int(n * 0.10)).
C15_NearestBridge ==
    [][/\ call'.name = "find_bridge_fault"
       /\ OutOfService = {}
       /\ BridgesOf(grid) # <<>>
       /\ Len(BridgesOf(grid)) <= BridgeSampleCap
       => /\ fault_info' # <<>>
          /\ \E k \in 1..Len(BridgesOf(grid)) :
                 /\ LineJoins(fault_info', BridgesOf(grid)[k][1], BridgesOf(grid)[k][2])
                 /\ \/ FirstNearest(BridgesOf(grid), k, TenthOff)
                    \/ FirstNearest(BridgesOf(grid), k, TargetOff)]_vars

(***************************************************************************)
(* The driver's bridge-fault run on grids large enough for a target of a   *)
(* bus or more: build, energize_grid, place_sensors_sqrt_n,                *)
(* find_bridge_fault, get_energized_status.                                *)
(***************************************************************************)
\* the most points of the trunk line of these grids
MaxTrunk == 12

\* from the least number of buses with int(n * 0.10) >= 1 up to MaxTrunk,
\* and twice that least number
TrunkSizes ==
    ((100 \div TargetPct)..MaxTrunk) \cup {2 * (100 \div TargetPct)}

\* the trunk 0 - 1 - ... - n-1 alone, or with a second line closing the
\* cycle 0 - ... - c - 0 short of the last bus
TrunkInputs(n) ==
    {<<PathFeature(n)>>} \cup {<<PathFeature(n), LineFeature(2, <<c, 0>>)>> : c \in 2..(n - 2)}

InitBridge ==
    \E n \in TrunkSizes : \E feats \in TrunkInputs(n) :
        \E subs \in {<<>>} \cup {<<PointSubstation(p)>> : p \in 0..(n - 1)} :
            Built(feats, subs)

NextBridge ==
    \/ CallEnergizeGrid
    \/ CallPlaceSensors
    \/ CallFindBridgeFault
    \/ CallGetEnergizedStatus

SpecBridge == InitBridge /\ [][NextBridge]_vars

\* the buses dead in g once every line joining u and v is out of service
CutOff(g, u, v) ==
    Cardinality(GetDeadBuses(GetEnergizedStatus(
        [g EXCEPT !.line_list =
            [i \in 1..Len(g.line_list) |->
                IF LineJoins(g.line_list[i], u, v)
                THEN [g.line_list[i] EXCEPT !.in_service = FALSE]
                ELSE g.line_list[i]]])))

\* some line of g joins the ends of an edge whose loss, from full service,
\* cuts off pct percent of the buses
HasCut(g, pct) ==
    \E i \in 1..Len(g.line_list) :
        100 * CutOff(EnergizeGrid(g), g.line_list[i].from_bus, g.line_list[i].to_bus)
            = pct * NumBuses(g)

\* C16: on a grid with every line in service, at most 50 bridges, and a
\* bridge whose removal cuts off exactly 10% of the buses from the source,
\* find_bridge_fault takes out of service and reports a line of a bridge
\* whose removal cuts off exactly 10% of the buses, not one cutting off 1%,
\* 90% or any other share.
C16_TenPercentBridge ==
    [][/\ call'.name = "find_bridge_fault"
       /\ OutOfService = {}
       /\ Len(BridgesOf(grid)) <= BridgeSampleCap
       /\ HasCut(grid, 10)
       => /\ fault_info' # <<>>
          /\ ~grid'.line_list[fault_info'.line_idx + 1].in_service
          /\ LineJoins(grid.line_list[fault_info'.line_idx + 1],
                       fault_info'.from_bus, fault_info'.to_bus)
          /\ 10 * CutOff(grid, fault_info'.from_bus, fault_info'.to_bus)
                 = NumBuses(grid)]_vars

\* a bridge cutting off 10% of the buses faulted on a grid that also has a
\* bridge cutting off 90%
C16_Witness ==
    /\ call.name = "find_bridge_fault"
    /\ fault_info # <<>>
    /\ OutOfService = {fault_info.line_idx + 1}
    /\ 10 * Cardinality(GetDeadBuses(GetEnergizedStatus(grid))) = NumBuses(grid)
    /\ HasCut(grid, 10)
    /\ HasCut(grid, 90)

\* the bridges of the graph of the lines in service
InServiceBridges(g) == NxBridges(GetActiveGraph(g))

\* C17 as claimed: find_bridge_fault looks at the bridges of the graph of the
\* lines in service: when there is one it faults a line of such a bridge,
\* when there is none it does what trigger_random_fault does, and the line
\* it reports was in service before the call.
C17_InServiceBridges ==
    [][call'.name = "find_bridge_fault" =>
           /\ fault_info' # <<>> =>
                  grid.line_list[fault_info'.line_idx + 1].in_service
           /\ InServiceBridges(grid) # <<>> =>
                  /\ fault_info' # <<>>
                  /\ \E k \in 1..Len(InServiceBridges(grid)) :
                         LineJoins(fault_info', InServiceBridges(grid)[k][1],
                                   InServiceBridges(grid)[k][2])
           /\ InServiceBridges(grid) = <<>> =>
                  \E r \in TriggerRandomFault(grid) :
                      /\ grid'.line_list = r.grid.line_list
                      /\ fault_info' = r.ret]_vars

\* C18 as claimed: find_bridge_fault on a grid with every line in service
\* and a bridge in its graph leaves at least one bus dead.
C18_BridgeFaultKills ==
    [][/\ call'.name = "find_bridge_fault"
       /\ OutOfService = {}
       /\ NumBuses(grid) >= 1
       /\ BridgesOf(grid) # <<>>
       => GetDeadBuses(GetEnergizedStatus(grid')) # {}]_vars

\* C19 as claimed: after find_bridge_fault on a grid with every line in
\* service and a bridge in its graph, some sensor of the plan reads dead and
\* identify_faulty_block returns a block index, for the plan placed before
\* the fault and for the one placed after it.
C19_BridgeFaultDetected ==
    [][/\ call'.name = "find_bridge_fault"
       /\ OutOfService = {}
       /\ NumBuses(grid) >= 1
       /\ BridgesOf(grid) # <<>>
       => \A P \in {PlaceSensorsSqrtN(grid), PlaceSensorsSqrtN(grid')} :
              LET readings == ReadSensors(P[1], GetEnergizedStatus(grid'))
              IN  /\ \E s \in SeqSet(P[1]) : readings[s] = 0
                  /\ IdentifyFaultyBlock(readings, P[1], P[2]) >= 0]_vars

\* C20 as claimed: no operation on a built grid changes what
\* place_sensors_sqrt_n returns: the same sensors and the same blocks, in the
\* same order, after energize_grid, trigger_fault, trigger_random_fault and
\* find_bridge_fault as before.
C20_PlanUnchanged ==
    [][PlaceSensorsSqrtN(grid') = PlaceSensorsSqrtN(grid)]_vars


(***************************************************************************)
(* The records of line_list against the lines as step 1 of the builder     *)
(* created them                                                            *)
(***************************************************************************)
\* line_list as step 1 left it, before the largest component is kept
CreatedLines == BuildScan(classified_features, max_lines).grid.line_list

\* a line record without its idx and its in_service flag
LineBody(l) ==
    [from_bus   |-> l.from_bus,
     to_bus     |-> l.to_bus,
     voltage_kv |-> l.voltage_kv,
     name       |-> l.name,
     power_type |-> l.power_type,
     length_km  |-> l.length_km]

\* C21: in every grid the builder returns, pruned or not, the record at place
\* i of line_list (from 0) has idx i, and the records are the created lines
\* with both ends among the buses kept, in the order they were created.
C21_EdgeIndices ==
    /\ \A i \in 1..Len(grid.line_list) : grid.line_list[i].idx = i - 1
    /\ call.name = "build_grid_from_geojson" =>
           LET retained == SelectSeq(CreatedLines,
                               LAMBDA l : l.from_bus \in Buses /\ l.to_bus \in Buses)
           IN  /\ Len(retained) = Len(grid.line_list)
               /\ \A i \in 1..Len(retained) :
                      LineBody(retained[i]) = LineBody(grid.line_list[i])

\* the line created first was pruned away and two later ones stay
C21_Witness ==
    /\ call.name = "build_grid_from_geojson"
    /\ Len(grid.line_list) = 2
    /\ Len(CreatedLines) = 3
    /\ CreatedLines[1].from_bus \notin Buses
    /\ LineBody(grid.line_list[1]) = LineBody(CreatedLines[2])


(***************************************************************************)
(* The builder on its own, fed with features as they come from the data:   *)
(* raw coordinates that differ from feature to feature, coordinates of one *)
(* component, features without coordinates, properties or voltage, and     *)
(* substations of every geometry.  When the build raises the caller gets   *)
(* no grid and the run ends there.                                         *)
(***************************************************************************)
\* the most coordinates the line features of a builder input hold together
MaxBuildCoords == 4

\* point p as written the k-th time: the raw longitude changes with k, its
\* 4-decimal key is p for every k
RawCoord(p, k) == <<3 * p + ((p + k) % 3) - 1, 0>>

\* a coordinate of one component
ShortCoord == <<1>>

\* line feature number k (from 1) through the points cs, -1 standing for a
\* coordinate of one component; a point is written anew at every place; the
\* second feature carries no voltage, the third no properties
RawLineFeature(k, cs) ==
    LET geometry ==
            [type        |-> "LineString",
             coordinates |-> [i \in 1..Len(cs) |->
                                IF cs[i] < 0 THEN ShortCoord
                                ELSE RawCoord(cs[i], 2 * k + i)]]
    IN  CASE k % 3 = 1 ->
                 [properties |-> [voltage |-> VoltageTags[1], power |-> "line"],
                  geometry   |-> geometry]
          [] k % 3 = 2 ->
                 [id |-> <<"way", k>>, properties |-> [power |-> "cable"],
                  geometry |-> geometry]
          [] OTHER ->
                 [id |-> <<"way", k>>, geometry |-> geometry]

\* the strings of n coordinates: a short one, a point seen before or the next
\* new point
CoordStrings(n) ==
    {f \in [1..n -> (-1)..(n - 1)] :
        \A i \in 1..n : f[i] <= Cardinality({f[j] : j \in 1..(i - 1)} \ {-1})}

\* no line feature, one, or two; a feature may hold no coordinate at all
RawLineInputs ==
    {<<>>}
    \cup UNION {{<<RawLineFeature(1, f)>> : f \in CoordStrings(n)} :
                  n \in 0..MaxBuildCoords}
    \cup UNION {UNION {{<<RawLineFeature(1, SubSeq(f, 1, a)),
                         RawLineFeature(2, SubSeq(f, a + 1, n))>> :
                           f \in CoordStrings(n)} : a \in 0..n} :
                  n \in 0..MaxBuildCoords}

\* two features of two whole coordinates each
PairedLineInputs ==
    {<<RawLineFeature(1, SubSeq(f, 1, 2)), RawLineFeature(2, SubSeq(f, 3, 4))>> :
        f \in {h \in CoordStrings(4) : \A i \in 1..4 : h[i] >= 0}}

\* a substation drawn as a ring starting at point p
PolygonSubstation(p) ==
    [properties |-> [voltage |-> <<"4", "0", "0", "0", "0", "0">>],
     geometry   |-> [type        |-> "Polygon",
                     coordinates |-> <<<<RawCoord(p, 2), RawCoord(p + 1, 2),
                                         RawCoord(p, 2)>>>>]]

\* a substation feature with the geometry geom and no voltage
BareSubstation(geom) == [properties |-> [power |-> "substation"], geometry |-> geom]

\* the substations whole: at a point of the lines or off them, as a point or
\* as a ring, with a voltage or without
WholeSubstations ==
    <<PointSubstation(0), PointSubstation(1), PointSubstation(3),
      PolygonSubstation(0), PolygonSubstation(1),
      BareSubstation([type |-> "Point", coordinates |-> RawCoord(1, 2)])>>

\* no coordinates, an empty ring, a ring point or a point of one component,
\* no geometry type, no geometry
MalformedSubstations ==
    <<BareSubstation([type |-> "Polygon", coordinates |-> <<>>]),
      BareSubstation([type |-> "Polygon", coordinates |-> <<<<>>>>]),
      BareSubstation([type |-> "Polygon", coordinates |-> <<<<ShortCoord>>>>]),
      BareSubstation([type |-> "Point", coordinates |-> ShortCoord]),
      BareSubstation([coordinates |-> RawCoord(0, 2)]),
      [properties |-> [power |-> "substation"]]>>

SubstationKinds == WholeSubstations \o MalformedSubstations

\* the state the call of the builder leaves: the grid it returns, or the
\* exception it raised and the empty GridNetwork in place of a grid
BuildCalled(feats, subs) ==
    /\ classified_features = [lines |-> feats, substations |-> subs]
    /\ max_lines = DefaultMaxLines
    /\ LET raised == BuildRaised(classified_features, max_lines)
       IN  /\ call = [name |-> "build_grid_from_geojson", raised |-> raised]
           /\ grid = IF raised = ""
                     THEN BuildGridFromGeojson(classified_features, max_lines)
                     ELSE EmptyGrid
    /\ fault_info = <<>>
    /\ plan = <<<<>>, <<>>>>

\* every line input with no substation, a whole one or a malformed one, and
\* the paired lines with up to two substations of any kind
InitBuild ==
    \/ \E feats \in RawLineInputs :
           \/ BuildCalled(feats, <<>>)
           \/ BuildCalled(feats, <<PolygonSubstation(1)>>)
           \/ BuildCalled(feats, <<MalformedSubstations[1]>>)
    \/ \E feats \in PairedLineInputs :
           \/ \E a \in 1..Len(SubstationKinds) :
                  BuildCalled(feats, <<SubstationKinds[a]>>)
           \/ \E a, b \in 1..Len(SubstationKinds) :
                  BuildCalled(feats, <<SubstationKinds[a], SubstationKinds[b]>>)

\* the builder returned: an exception ends the run
Returned == call.name = "build_grid_from_geojson" => call.raised = ""

NextBuild ==
    \/ Returned /\ CallGetEnergizedStatus
    \/ Returned /\ CallPlaceSensors

SpecBuild == InitBuild /\ [][NextBuild]_vars


Substations == classified_features.substations

\* where substation feature k lies: its Point coordinate or the first point
\* of its Polygon ring, <<>> when it has neither
SubstationPoint(k) ==
    LET geom == DictGet(Substations[k], "geometry", <<>>)
        type == DictGet(geom, "type", "")
        coordinates == DictGet(geom, "coordinates", <<>>)
    IN  IF type = "Point" /\ Len(coordinates) >= 2 THEN coordinates
        ELSE IF type = "Polygon" /\ coordinates # <<>> /\ coordinates[1] # <<>>
             THEN coordinates[1][1]
        ELSE <<>>

\* the buses of the grid lying at the 4-decimal key of the coordinate c
BusesAt(c) ==
    {b \in Buses : CoordKey(grid.bus_geo[b][1], grid.bus_geo[b][2]) = CoordKey(c[1], c[2])}

\* the substations whose coordinate is that of a bus of the grid
Resolved ==
    {k \in 1..Len(Substations) :
        SubstationPoint(k) # <<>> /\ BusesAt(SubstationPoint(k)) # {}}

SubstationKv(k) ==
    ParseVoltageKv(DictGet(DictGet(Substations[k], "properties", <<>>), "voltage", <<>>))

\* C22: in every grid of one bus or more that the builder returns, the source
\* is a bus of the grid: the bus of a substation of the highest parsed voltage
\* among the substations whose coordinate is that of a bus kept, and the bus
\* of the lowest id when there is no such substation.
C22_SourceChoice ==
    Returned /\ NumBuses(grid) >= 1 =>
        /\ grid.ext_grid_bus \in Buses
        /\ IF Resolved = {} THEN \A b \in Buses : grid.ext_grid_bus <= b
           ELSE \E k \in Resolved :
                    /\ grid.ext_grid_bus \in BusesAt(SubstationPoint(k))
                    /\ \A j \in Resolved : SubstationKv(j) <= SubstationKv(k)

\* two substations at two buses of the grid, the second of the higher voltage
\* and taken as the source
C22_Witness ==
    /\ call.name = "build_grid_from_geojson"
    /\ call.raised = ""
    /\ Resolved = {1, 2}
    /\ SubstationKv(1) < SubstationKv(2)
    /\ grid.ext_grid_bus \in BusesAt(SubstationPoint(2))
    /\ grid.ext_grid_bus \notin BusesAt(SubstationPoint(1))
    /\ grid.ext_grid_bus # grid.G.nodes[1]

\* no substation lies on the grid kept and the source is its lowest bus, bus 0
\* having been pruned
C22_FallbackReached ==
    /\ call.name = "build_grid_from_geojson"
    /\ call.raised = ""
    /\ Len(Substations) >= 1
    /\ Resolved = {}
    /\ grid.ext_grid_bus = 1


\* the coordinates of line feature k of the input
InputCoords(k) ==
    DictGet(DictGet(classified_features.lines[k], "geometry", <<>>), "coordinates", <<>>)

\* no line feature of two coordinates or more holds a coordinate of two
\* components: the input creates no bus
NoNodeInput ==
    \A k \in 1..Len(classified_features.lines) :
        \/ Len(InputCoords(k)) < 2
        \/ \A i \in 1..Len(InputCoords(k)) : Len(InputCoords(k)[i]) < 2

\* C23: when the input features create no bus at all, the builder raises
\* nothing and returns the empty grid: no bus, no line, ext_grid_bus = -1; on
\* that grid get_energized_status returns the empty dict and
\* place_sensors_sqrt_n returns no sensor and no block.
C23_EmptyGrid ==
    NoNodeInput =>
        /\ Returned
        /\ NumBuses(grid) = 0
        /\ NumLines(grid) = 0
        /\ grid.line_list = <<>>
        /\ grid.ext_grid_bus = -1
        /\ GetEnergizedStatus(grid) = <<>>
        /\ PlaceSensorsSqrtN(grid) = <<<<>>, <<>>>>
        /\ call.name = "get_energized_status" => DOMAIN call.ret = {}
        /\ call.name = "place_sensors_sqrt_n" => plan = <<<<>>, <<>>>>

\* two line features that create no bus and a substation the builder would
\* choke on had it read it; the energization of the empty grid was asked for
C23_Witness ==
    /\ NoNodeInput
    /\ Len(classified_features.lines) = 2
    /\ \E i \in 1..Len(InputCoords(1)) : Len(InputCoords(1)[i]) >= 2
    /\ Len(Substations) = 1
    /\ SourceStepRaises(Substations[1])
    /\ call.name = "get_energized_status"
    /\ call.ret = <<>>
    /\ plan = <<<<>>, <<>>>>


\* C24: the builder never raises because of one malformed feature, a line or
\* a substation (fewer than two coordinates, a coordinate of fewer than two
\* components, an empty coordinate list or polygon ring, no voltage, no
\* geometry type): the call returns a grid.
C24_MalformedSkipped ==
    call.name = "build_grid_from_geojson" => call.raised # "IndexError"


NoPlan == <<<<>>, <<>>>>

\* C25: place_sensors_sqrt_n on a grid whose source is no bus of it prints the
\* no-source error and returns no sensor and no block; it returns none on a
\* grid of no bus; and a plan that is not empty starts at the source, which
\* is a bus of the grid.
C25_NoSourceNoPlan ==
    call.name = "place_sensors_sqrt_n" =>
        /\ grid.ext_grid_bus \notin Buses =>
               /\ plan = NoPlan
               /\ call.printed = "ERROR: No power source in the grid!"
        /\ NumBuses(grid) = 0 => plan = NoPlan
        /\ plan # NoPlan =>
               /\ grid.ext_grid_bus \in Buses
               /\ plan[2][1][1] = grid.ext_grid_bus
               /\ call.printed = "Sensor Placement:"

\* the sensors were asked for on the grid of an input without lines
C25_Witness ==
    /\ call.name = "place_sensors_sqrt_n"
    /\ grid.ext_grid_bus = -1
    /\ Buses = {}
    /\ call.printed = "ERROR: No power source in the grid!"
    /\ plan = NoPlan


(***************************************************************************)
(* parse_voltage_kv on its own, applied to voltage tags as the data holds  *)
(* them: tokens joined by ';'.                                             *)
(***************************************************************************)
\* the most tokens of a voltage tag
MaxTokens == 3

\* "", "abc", "0", "400000", "11000", "33000", "1000", "1000.5", " 220 ",
\* "4..", "1.5"
VoltageTokens ==
    << <<>>,
       <<"a", "b", "c">>,
       <<"0">>,
       <<"4", "0", "0", "0", "0", "0">>,
       <<"1", "1", "0", "0", "0">>,
       <<"3", "3", "0", "0", "0">>,
       <<"1", "0", "0", "0">>,
       <<"1", "0", "0", "0", ".", "5">>,
       <<" ", "2", "2", "0", " ">>,
       <<"4", ".", ".">>,
       <<"1", ".", "5">> >>

RECURSIVE JoinTokens(_)
\* ';'.join(tokens)
JoinTokens(tokens) ==
    IF Len(tokens) = 1 THEN tokens[1]
    ELSE tokens[1] \o <<";">> \o JoinTokens(Tail(tokens))

VoltageStrings ==
    UNION {{JoinTokens([i \in 1..n |-> VoltageTokens[f[i]]]) :
              f \in [1..n -> 1..Len(VoltageTokens)]} : n \in 1..MaxTokens}

InitVoltage ==
    /\ classified_features = [lines |-> <<>>, substations |-> <<>>]
    /\ max_lines = DefaultMaxLines
    /\ grid = EmptyGrid
    /\ fault_info = <<>>
    /\ plan = <<<<>>, <<>>>>
    /\ \E voltage_str \in VoltageStrings :
           call = [name |-> "voltage_str", ret |-> voltage_str]

\* voltage_kv = parse_voltage_kv(voltage_str)
CallParseVoltageKv ==
    /\ call.name = "voltage_str"
    /\ call' = [name        |-> "parse_voltage_kv",
                voltage_str |-> call.ret,
                ret         |-> ParseVoltageKv(call.ret)]
    /\ UNCHANGED <<classified_features, max_lines, grid, fault_info, plan>>

NextVoltage == CallParseVoltageKv

SpecVoltage == InitVoltage /\ [][NextVoltage]_vars

\* a decimal numeral: digits, one of them at least, around one '.' at most
IsNumeral(p) ==
    /\ \A i \in 1..Len(p) : p[i] \in Digits \cup {"."}
    /\ \E i \in 1..Len(p) : p[i] \in Digits
    /\ \A i, j \in 1..Len(p) : p[i] = "." /\ p[j] = "." => i = j

\* the numerals among the ';'-separated tokens of a tag, blanks around them
\* dropped, in thousandths
NumeralsOf(voltage_str) ==
    LET parts == StrSplit(voltage_str, ";", <<>>)
    IN  {PyFloatMilli(StrStrip(parts[i])) :
            i \in {j \in 1..Len(parts) : IsNumeral(StrStrip(parts[j]))}}

\* C26: parse_voltage_kv returns, for every string, the largest of its
\* numeric ';'-separated tokens, the others being ignored, divided by 1000
\* when it is above 1000 and as it is otherwise, and 11.0 for the empty
\* string or a string without numeric token.
C26_ParseVoltage ==
    call.name = "parse_voltage_kv" =>
        LET nums == NumeralsOf(call.voltage_str)
        IN  IF nums = {} THEN call.ret = DefaultKv
            ELSE LET max_v == CHOOSE m \in nums : \A x \in nums : x <= m
                 IN  call.ret = IF max_v > VoltsThreshold THEN max_v ELSE max_v * 1000


\* the point of the 4-decimal grid nearest to the component x (the grid
\* points are the multiples of 3)
GridPoint(x) == CHOOSE k \in (-1)..(x + 1) : Abs(x - 3 * k) <= 1

\* two coordinates round to the same 4-decimal key
SameKey(c, d) == GridPoint(c[1]) = GridPoint(d[1]) /\ GridPoint(c[2]) = GridPoint(d[2])

\* the coordinates of two components of line feature k, in their order
WholeCoords(k) == SelectSeq(InputCoords(k), LAMBDA c : Len(c) >= 2)

\* the line feature k joins, by two coordinates of two components in a row,
\* the places of the buses a and b
JoinedByFeature(k, a, b) ==
    /\ Len(InputCoords(k)) >= 2
    /\ \E i \in 1..(Len(WholeCoords(k)) - 1) :
           /\ SameKey(WholeCoords(k)[i], grid.bus_geo[a])
           /\ SameKey(WholeCoords(k)[i + 1], grid.bus_geo[b])

\* C27: in every grid the builder returns, every line record joins two
\* different buses of the grid, which lie where two coordinates in a row of a
\* line feature lie; no two buses lie at the same 4-decimal key, so that
\* coordinates rounding to one key are one bus; and bus_geo and bus_voltage
\* have the buses of the grid as their keys.
C27_EdgeEndsAndKeys ==
    Returned =>
        /\ \A i \in 1..Len(grid.line_list) :
               LET l == grid.line_list[i]
               IN  /\ l.from_bus # l.to_bus
                   /\ l.from_bus \in Buses
                   /\ l.to_bus \in Buses
                   /\ \E k \in 1..Len(classified_features.lines) :
                          JoinedByFeature(k, l.from_bus, l.to_bus)
        /\ \A a, b \in Buses :
               a # b => ~SameKey(grid.bus_geo[a], grid.bus_geo[b])
        /\ DOMAIN grid.bus_geo = Buses
        /\ DOMAIN grid.bus_voltage = Buses

\* two features meet at a point that each writes with another raw longitude:
\* one bus, the end of the first line and the start of the second
C27_Witness ==
    /\ call.name = "build_grid_from_geojson"
    /\ call.raised = ""
    /\ Len(classified_features.lines) = 2
    /\ Len(InputCoords(1)) = 2
    /\ Len(InputCoords(2)) = 2
    /\ NumBuses(grid) = 3
    /\ Len(grid.line_list) = 2
    /\ grid.line_list[1].to_bus = grid.line_list[2].from_bus
    /\ InputCoords(1)[2] # InputCoords(2)[1]
    /\ SameKey(InputCoords(1)[2], InputCoords(2)[1])
    /\ SameKey(InputCoords(2)[1], grid.bus_geo[grid.line_list[1].to_bus])


\* C28: in every grid the builder returns, the line records and the edges of
\* the graph are the same in number, num_lines = len(line_list) =
\* len(line_data), no two records joining the same two buses, so that the
\* fault of one record parts its two ends unless another path joins them.
C28_OneRecordPerEdge ==
    /\ NumLines(grid) = Len(grid.line_list)
    /\ Cardinality(DOMAIN grid.line_data) = Len(grid.line_list)
    /\ \A i, j \in 1..Len(grid.line_list) :
           LineJoins(grid.line_list[i], grid.line_list[j].from_bus,
                     grid.line_list[j].to_bus) => i = j


\* the buses get_energized_status reports energized on the grid g
LiveOf(g) ==
    LET status == GetEnergizedStatus(g)
    IN  {b \in DOMAIN status : status[b] = 1}

\* C29: a call of trigger_fault, trigger_random_fault or find_bridge_fault
\* never adds a bus to those get_energized_status reports energized: the
\* buses energized after the call were energized before it, and the source,
\* when the grid has one, is among them.
C29_EnergizedShrinks ==
    [][call'.name \in FaultCalls =>
           LET after == LiveOf(grid')
           IN  /\ grid' = grid \/ after \subseteq LiveOf(grid)
               /\ grid.ext_grid_bus \in Buses => grid'.ext_grid_bus \in after]_vars

\* after a second fault, the one find_bridge_fault chose, the source is the
\* only bus of three or more still energized
C29_Witness ==
    /\ call.name = "find_bridge_fault"
    /\ Cardinality(OutOfService) >= 2
    /\ NumBuses(grid) >= 3
    /\ LiveOf(grid) = {grid.ext_grid_bus}


\* the edges of a graph, each as the set of its two ends
EdgeSet(G) == UNION {{{a, b} : b \in SeqSet(G.adj[a])} : a \in DOMAIN G.adj}


\* the grid as the builder returned it
BuiltGrid == BuildGridFromGeojson(classified_features, max_lines)

\* C30: no call of trigger_fault, trigger_random_fault or find_bridge_fault,
\* the edges find_bridge_fault takes out for a while included, nor any other
\* call, changes the buses or the edges of the graph, which so stay those of
\* the grid as built, and after a following energize_grid
\* get_energized_status reports every bus energized.
C30_TopologyKept ==
    [][/\ grid'.G.nodes = grid.G.nodes
       /\ EdgeSet(grid'.G) = EdgeSet(grid.G)
       /\ grid'.ext_grid_bus = grid.ext_grid_bus
       /\ call'.name = "energize_grid" => LiveOf(grid') = SeqSet(grid'.G.nodes)]_vars

\* energize_grid after a fault that find_bridge_fault chose, which left the
\* neighbours of a bus in another order than the builder did
C30_Witness ==
    /\ call.name = "energize_grid"
    /\ fault_info # <<>>
    /\ NumBuses(grid) >= 3
    /\ grid.G # BuiltGrid.G
    /\ OutOfService = {}
    /\ LiveOf(grid) = Buses

=============================================================================
